---- MODULE Spec2Model ----
(***************************************************************************)
(* Model of the test orchestrator of src/tests/orchestrator.py:            *)
(* TestOrchestrator.run and the two execution strategies it drives         *)
(* (_run_sequential, _run_parallel over a ThreadPoolExecutor), the         *)
(* execution engine _execute_single_test and the summary it aggregates.    *)
(*                                                                         *)
(* Durations are in hundredths of a second (0.1 s = 10).  A test's name    *)
(* is its position in the dict self.tests.                                 *)
(***************************************************************************)
EXTENDS Integers, Sequences, FiniteSets, Bags, TLC

VARIABLES
    tests,      \* self.tests: the TestMetadata records, in dict order
    unit,       \* what the code of each test does when it is executed
    config,     \* self.config: ExecutionConfig
    summary,    \* self.summary: ExecutionSummary
    stop,       \* self._stop_event.is_set()
    pc,         \* position of the thread that calls run()
    todo,       \* the tests the current for loop still has to visit
    futures,    \* _run_parallel: the submitted tests, in submission order
    queue,      \* the pool's work queue (submitted, not started, not cancelled)
    executing,  \* the tests being executed right now, by any thread
    done,       \* finished futures as_completed has not yielded yet
    started,    \* the tests whose execution began in the current run, in order
    runs,       \* number of run() calls made on this orchestrator
    calls,      \* number of run() calls the caller has yet to make
    now,        \* the clock read by datetime.now()
    exit,       \* main(): the mode of the process and the code of sys.exit
    executions,    \* TestAnalytics: the rows of table executions, by id
    test_results,  \* TestAnalytics: the rows of table test_results, a bag
    answer,        \* TestAnalytics: the last call made and what it returned
    files,      \* TestDiscovery: the files rglob("test_*.py") yields, in order
    discovered, \* TestDiscovery.tests: the dict of discover()
    scan,       \* TestDiscovery: where discover() is, and the next file's index
    mutex,      \* self._summary_lock: "free", or the thread that holds it
    shop_type_list,  \* get_tipo_loja: the argument of the call
    tipo_loja        \* get_tipo_loja: whether it was called, and its result

(* The state of the orchestrator and of the process that runs it *)
orchestration == <<tests, unit, config, summary, stop, pc, todo, futures,
                   queue, executing, done, started, runs, calls, now, exit,
                   mutex>>

(* The state of the analytics store of src/tests/monitoring.py *)
analytics == <<executions, test_results, answer>>

(* The state of test discovery *)
discovery == <<files, discovered, scan>>

(* The state of a caller of get_tipo_loja of src/scripts/shopee_api.py *)
shopee == <<shop_type_list, tipo_loja>>

vars == <<orchestration, analytics, discovery, shopee>>

----------------------------------------------------------------------------
(* Bounds of the model *)

MaxTests == 3

MaxWorkers == 2

MaxRuns == 2

----------------------------------------------------------------------------
(* TestCategory: the values of the enumeration *)
TestCategory == {"unit", "integration", "api", "mock", "property", "flaky"}

(* TestPriority *)

CRITICAL == 0

HIGH == 1

MEDIUM == 2

LOW == 3

(* ExecutionConfig.retry_flaky *)
retry_flaky == 3

(* TestMetadata: the fields run() reads *)
TestMetadata(n, p, d, f, s, c) ==
    [name |-> n, category |-> c, priority |-> p, estimated_duration |-> d,
     flaky |-> f, parallel_safe |-> s]

(* What executing a test can do: pass, fail an assertion, raise an         *)
(* unexpected exception, or not load at all (module, class or method       *)
(* missing).                                                               *)
Behaviours ==
    {"pass", "assert_fail", "raise", "import_fail", "fail_and_raise",
     "unexpected_pass", "skip"}

(* The tests self.tests may hold: priority, estimated duration, flaky,     *)
(* parallel_safe, what the test's code does, and the category.  A flaky    *)
(* test and a test that requires authentication are not parallel-safe.     *)
TestKinds ==
    { <<CRITICAL, 10, FALSE, TRUE, "pass", "unit">>,
      <<CRITICAL, 10, FALSE, TRUE, "raise", "unit">>,
      <<MEDIUM, 500, FALSE, TRUE, "pass", "api">>,
      <<MEDIUM, 500, FALSE, TRUE, "assert_fail", "api">>,
      <<MEDIUM, 10, FALSE, FALSE, "pass", "integration">>,
      <<MEDIUM, 10, FALSE, FALSE, "import_fail", "integration">>,
      <<LOW, 100, TRUE, FALSE, "pass", "flaky">>,
      <<LOW, 100, TRUE, FALSE, "raise", "flaky">> }

(* Tests told apart by what unittest reports for them: a failure and an
   error at once, an unexpected success, a skip, a module that cannot be
   imported *)
EngineKinds ==
    { <<MEDIUM, 10, FALSE, TRUE, "pass", "unit">>,
      <<MEDIUM, 10, FALSE, TRUE, "fail_and_raise", "unit">>,
      <<MEDIUM, 10, FALSE, TRUE, "unexpected_pass", "unit">>,
      <<MEDIUM, 10, FALSE, FALSE, "skip", "integration">>,
      <<MEDIUM, 10, FALSE, FALSE, "import_fail", "integration">> }

(* Tests that pass or raise on a pool worker, and a test of the sequential
   tail *)
PoolKinds ==
    { <<CRITICAL, 10, FALSE, TRUE, "pass", "unit">>,
      <<CRITICAL, 10, FALSE, TRUE, "raise", "unit">>,
      <<MEDIUM, 10, FALSE, FALSE, "pass", "integration">> }

(* The values of --category the command lines of the model give: none (main()
   passes the empty set), every category, and two proper subsets *)
CategoryChoices == { {}, TestCategory, {"unit"}, {"api", "flaky"} }

(* ExecutionSummary() as the constructor leaves it *)
ExecutionSummary(t) ==
    [total |-> 0, passed |-> 0, failed |-> 0, skipped |-> 0, errors |-> 0,
     duration |-> 0, results |-> <<>>, start_time |-> t, end_time |-> -1]

(* ExecutionSummary.success_rate, as the exact fraction num / den: 0.0 when
   total is 0, else (passed / total) * 100 *)
success_rate(s) ==
    IF s.total = 0 THEN [num |-> 0, den |-> 1]
    ELSE [num |-> s.passed * 100, den |-> s.total]

(* TestResult(test_id=..., status=...): retries keeps its default 0 *)
TestResult(id, status) == [test_id |-> id, status |-> status, retries |-> 0]

(* What importing the module, building the suite and runner.run(suite)
   give for a test: whether the load succeeded, and the sizes of
   result.errors, result.failures, result.unexpectedSuccesses and
   result.skipped.  A test method that fails and whose tearDown raises
   reports a failure and an error. *)
Outcome(e, f, u, k) ==
    [loaded |-> TRUE, errors |-> e, failures |-> f,
     unexpectedSuccesses |-> u, skipped |-> k]

RunUnit(b) ==
    CASE b = "pass"            -> Outcome(0, 0, 0, 0)
      [] b = "assert_fail"     -> Outcome(0, 1, 0, 0)
      [] b = "raise"           -> Outcome(1, 0, 0, 0)
      [] b = "fail_and_raise"  -> Outcome(1, 1, 0, 0)
      [] b = "unexpected_pass" -> Outcome(0, 0, 1, 0)
      [] b = "skip"            -> Outcome(0, 0, 0, 1)
      [] OTHER                 -> [Outcome(0, 0, 0, 0) EXCEPT !.loaded = FALSE]

(* unittest.TestResult.wasSuccessful() *)
wasSuccessful(r) ==
    r.errors = 0 /\ r.failures = 0 /\ r.unexpectedSuccesses = 0

(* Variant of _execute_single_test that reports a skipped test as skipped *)
_execute_single_test_ReportsSkipped(test, b) ==
    LET r == RunUnit(b)
    IN  IF ~r.loaded THEN TestResult(test.name, "error")
        ELSE IF r.skipped > 0 THEN TestResult(test.name, "skipped")
        ELSE IF wasSuccessful(r) THEN TestResult(test.name, "passed")
        ELSE IF r.errors > 0 THEN TestResult(test.name, "error")
        ELSE TestResult(test.name, "failed")

(* Variant of _execute_single_test without the errors branch *)
_execute_single_test_NoErrorsBranch(test, b) ==
    LET r == RunUnit(b)
    IN  IF ~r.loaded THEN TestResult(test.name, "error")
        ELSE IF wasSuccessful(r) THEN TestResult(test.name, "passed")
        ELSE TestResult(test.name, "failed")

(* TestOrchestrator._execute_single_test *)
_execute_single_test(test, b) ==
    LET r == RunUnit(b)
    IN  IF ~r.loaded THEN TestResult(test.name, "error")
        ELSE IF wasSuccessful(r) THEN TestResult(test.name, "passed")
        ELSE IF r.errors > 0 THEN TestResult(test.name, "error")
        ELSE TestResult(test.name, "failed")

(* TestOrchestrator._update_summary *)
_update_summary(s, result) ==
    IF result.status = "passed" THEN [s EXCEPT !.passed = @ + 1]
    ELSE IF result.status = "failed" THEN [s EXCEPT !.failed = @ + 1]
    ELSE IF result.status = "error" THEN [s EXCEPT !.errors = @ + 1]
    ELSE IF result.status = "skipped" THEN [s EXCEPT !.skipped = @ + 1]
    ELSE s

(* self.summary.results.append(result); self._update_summary(result) *)
Record(s, result) ==
    _update_summary([s EXCEPT !.results = Append(@, result)], result)

(* TestOrchestrator._filter_tests: the tests are filtered only when
   config.categories is neither empty nor the whole enumeration *)
_filter_tests_KeepAll(ts) == ts

_filter_tests(ts) ==
    IF config.categories # {} /\ config.categories # TestCategory
    THEN SelectSeq(ts, LAMBDA t : t.category \in config.categories)
    ELSE ts

(* Variants of the sort key: the priority alone, the duration alone *)
KeyLE_PriorityOnly(a, b) == a.priority <= b.priority

KeyLE_DurationOnly(a, b) == a.estimated_duration <= b.estimated_duration

(* The sort key of run(): (priority.value, estimated_duration) *)
KeyLE(a, b) ==
    \/ a.priority < b.priority
    \/ a.priority = b.priority /\ a.estimated_duration <= b.estimated_duration

(* x placed after every element of the sorted list s whose key is <= its own *)
InsertSorted(x, s) ==
    LET k == Cardinality({i \in 1..Len(s) : KeyLE(s[i], x)})
    IN  SubSeq(s, 1, k) \o <<x>> \o SubSeq(s, k + 1, Len(s))

(* sorted(tests_to_run, key=...): Python's sort is stable *)
RECURSIVE sorted(_)
sorted(s) ==
    IF s = <<>> THEN <<>>
    ELSE InsertSorted(s[Len(s)], sorted(SubSeq(s, 1, Len(s) - 1)))

IsParallelSafe(t) == t.parallel_safe

IsNotParallelSafe(t) == ~t.parallel_safe

(* Variant of sequential_tests that keeps the flaky tests only *)
sequential_tests_FlakyOnly(ts) == SelectSeq(ts, LAMBDA t : t.flaky)

(* parallel_tests of _run_parallel *)
parallel_tests(ts) == SelectSeq(ts, IsParallelSafe)

(* sequential_tests of _run_parallel *)
sequential_tests(ts) == SelectSeq(ts, IsNotParallelSafe)

(* result.status in ("failed", "error") *)
IsFailure(result) == result.status \in {"failed", "error"}

----------------------------------------------------------------------------
(* The process has not reached sys.exit *)
NotExited == [ci |-> FALSE, code |-> -1]

(* No call has been made on the analytics store *)
NoCall == [op |-> "none"]

(* TestOrchestrator.__init__, with self.tests and the tests' code given;    *)
(* the caller goes on to call run() c times.                               *)
ConstructOf(kinds, c, workers, categories) ==
    /\ \E n \in 0..MaxTests :
         \E k \in [1..n -> kinds] :
           /\ tests = [i \in 1..n |->
                         TestMetadata(i, k[i][1], k[i][2], k[i][3], k[i][4],
                                      k[i][6])]
           /\ unit = [i \in 1..n |-> k[i][5]]
    /\ config \in [max_workers : workers, parallel : BOOLEAN,
                   fail_fast : BOOLEAN, retry_flaky : {retry_flaky},
                   categories : categories]
    /\ summary = ExecutionSummary(0)
    /\ stop = FALSE
    /\ pc = "idle"
    /\ todo = <<>>
    /\ futures = <<>>
    /\ queue = <<>>
    /\ executing = {}
    /\ done = {}
    /\ started = <<>>
    /\ runs = 0
    /\ calls = c
    /\ now = 1
    /\ exit = NotExited
    /\ mutex = "free"

(* An orchestrator whose tests are of the kinds of TestKinds *)
Construct(c, workers, categories) ==
    ConstructOf(TestKinds, c, workers, categories)

(* No analytics store is opened *)
NoAnalytics ==
    /\ executions = <<>>
    /\ test_results = EmptyBag
    /\ answer = NoCall

(* No discovery is under way: self.tests is given *)
NoDiscovery ==
    /\ files = <<>>
    /\ discovered = <<>>
    /\ scan = [state |-> "idle", next |-> 1]

(* get_tipo_loja is not called *)
NotAsked == [called |-> FALSE, value |-> ""]

(* No caller of get_tipo_loja *)
NoShop ==
    /\ shop_type_list = [given |-> FALSE, list |-> <<>>]
    /\ tipo_loja = NotAsked

(* The parts of the process other than the orchestrator are idle *)
Elsewhere == NoAnalytics /\ NoDiscovery /\ NoShop

(* main() and CIOrchestrator without --category: one orchestrator, one
   run() *)
Init == Construct(1, 0..MaxWorkers, {{}}) /\ Elsewhere

(* A caller that calls run() again on the same orchestrator *)
InitRerun ==
    Construct(MaxRuns, 0..MaxWorkers, {{}}) /\ Elsewhere

(* main() with or without --category, and the largest --workers *)
InitFilter ==
    Construct(1, {MaxWorkers}, CategoryChoices) /\ Elsewhere

(* One run() over tests of the kinds of EngineKinds *)
InitEngine == ConstructOf(EngineKinds, 1, 1..MaxWorkers, {{}}) /\ Elsewhere

(* One run() over tests of the kinds of PoolKinds *)
InitPool == ConstructOf(PoolKinds, 1, 0..MaxWorkers, {{}}) /\ Elsewhere

----------------------------------------------------------------------------
(* The names of a list of tests *)
Names(ts) == [i \in 1..Len(ts) |-> ts[i].name]

(* The result of executing the test named n *)
Execute(n) == _execute_single_test(tests[n], unit[n])

(* run(), from the loops' end to the return: end_time and duration are set *)
Finished(s) == [s EXCEPT !.end_time = now, !.duration = now - s.start_time]

(* The pool exists: run() is inside the with block of _run_parallel *)
PoolOpen == pc \in {"collect", "collect_count", "cancel", "join"}

(* as_completed is still being iterated: a future that finishes is yielded *)
Collecting == pc \in {"collect", "collect_count"}

(* run(), up to the first test: start_time, filter, sort, total, and the    *)
(* choice of the strategy; _run_parallel splits the tests and submits every *)
(* parallel-safe one.  ThreadPoolExecutor(max_workers) raises ValueError    *)
(* for max_workers <= 0.                                                    *)
run ==
    /\ pc \in {"idle", "returned"}
    /\ calls > 0
    /\ calls' = calls - 1
    /\ LET tests_to_run == sorted(_filter_tests(tests))
       IN  /\ summary' = [summary EXCEPT !.start_time = now,
                                         !.total = Len(tests_to_run)]
           /\ IF config.parallel /\ Len(tests_to_run) > 1
              THEN IF config.max_workers <= 0
                   THEN /\ pc' = "raised"
                        /\ futures' = <<>>
                        /\ queue' = <<>>
                        /\ todo' = <<>>
                   ELSE /\ pc' = "collect"
                        /\ futures' = Names(parallel_tests(tests_to_run))
                        /\ queue' = Names(parallel_tests(tests_to_run))
                        /\ todo' = Names(sequential_tests(tests_to_run))
              ELSE /\ pc' = "seq"
                   /\ futures' = <<>>
                   /\ queue' = <<>>
                   /\ todo' = Names(tests_to_run)
    /\ now' = now + 1
    /\ runs' = runs + 1
    /\ started' = <<>>
    /\ executing' = {}
    /\ done' = {}
    /\ UNCHANGED <<analytics, discovery, shopee, mutex, exit,
                 tests, unit, config, stop>>

(* _run_sequential: the stop check passes and the next test begins *)
SeqStart ==
    /\ pc = "seq"
    /\ todo # <<>>
    /\ ~stop
    /\ executing' = {Head(todo)}
    /\ started' = Append(started, Head(todo))
    /\ pc' = "seq_exec"
    /\ UNCHANGED <<analytics, discovery, shopee, mutex, exit,
                 tests, unit, config, summary, stop, todo, futures, queue,
                   done, runs, now,
                   calls>>

(* _run_sequential: the test returns, its result is appended and counted;   *)
(* with fail_fast a failed or errored result breaks the loop and run()      *)
(* returns.                                                                 *)
SeqFinish ==
    /\ pc = "seq_exec"
    /\ LET result == Execute(Head(todo))
       IN  IF config.fail_fast /\ IsFailure(result)
           THEN /\ summary' = Finished(Record(summary, result))
                /\ now' = now + 1
                /\ todo' = <<>>
                /\ pc' = "returned"
           ELSE /\ summary' = Record(summary, result)
                /\ now' = now
                /\ todo' = Tail(todo)
                /\ pc' = "seq"
    /\ executing' = {}
    /\ UNCHANGED <<analytics, discovery, shopee, mutex, exit,
                 tests, unit, config, stop, futures, queue, done, started,
                   runs,
                   calls>>

(* _run_sequential: the list is exhausted or the stop event is set; run()   *)
(* returns.                                                                 *)
SeqExit ==
    /\ pc = "seq"
    /\ todo = <<>> \/ stop
    /\ summary' = Finished(summary)
    /\ now' = now + 1
    /\ todo' = <<>>
    /\ pc' = "returned"
    /\ UNCHANGED <<analytics, discovery, shopee, mutex, exit,
                 tests, unit, config, stop, futures, queue, executing,
                   done, started, runs,
                   calls>>

(* WorkerStart of a pool that starts a thread for every work item *)
WorkerStart_NoCap ==
    /\ PoolOpen
    /\ queue # <<>>
    /\ executing' = executing \cup {Head(queue)}
    /\ queue' = Tail(queue)
    /\ started' = Append(started, Head(queue))
    /\ UNCHANGED <<analytics, discovery, shopee, mutex, exit,
                 tests, unit, config, summary, stop, pc, todo, futures,
                   done, runs, now,
                   calls>>

(* A pool worker takes the next work item of the queue; the pool has at     *)
(* most max_workers threads, each running one item at a time.               *)
WorkerStart ==
    /\ PoolOpen
    /\ queue # <<>>
    /\ Cardinality(executing) < config.max_workers
    /\ executing' = executing \cup {Head(queue)}
    /\ queue' = Tail(queue)
    /\ started' = Append(started, Head(queue))
    /\ UNCHANGED <<analytics, discovery, shopee, mutex, exit,
                 tests, unit, config, summary, stop, pc, todo, futures,
                   done, runs, now,
                   calls>>

(* A pool worker's test returns: its future is done *)
WorkerFinish ==
    /\ PoolOpen
    /\ \E n \in executing :
         /\ executing' = executing \ {n}
         /\ done' = IF Collecting THEN done \cup {Execute(n)} ELSE done
    /\ UNCHANGED <<analytics, discovery, shopee, mutex, exit,
                 tests, unit, config, summary, stop, pc, todo, futures,
                   queue, started, runs, now,
                   calls>>

(* _run_parallel: as_completed yields a finished future.  If the stop event *)
(* is set the loop breaks; otherwise the result is appended and counted     *)
(* under the lock, and with fail_fast a failed or errored result leads to   *)
(* the shutdown of the pool.                                                *)
Collect ==
    /\ pc = "collect"
    /\ \E result \in done :
         IF stop
         THEN /\ pc' = "join"
              /\ done' = {}
              /\ summary' = summary
         ELSE /\ summary' = Record(summary, result)
              /\ done' = done \ {result}
              /\ pc' = IF config.fail_fast /\ IsFailure(result)
                       THEN "cancel" ELSE "collect"
    /\ UNCHANGED <<analytics, discovery, shopee, mutex, exit,
                 tests, unit, config, stop, todo, futures, queue,
                   executing, started, runs, now,
                   calls>>

(* _run_parallel: as_completed has yielded every future *)
CollectEnd ==
    /\ pc = "collect"
    /\ done = {}
    /\ queue = <<>>
    /\ executing = {}
    /\ pc' = "join"
    /\ UNCHANGED <<analytics, discovery, shopee, mutex, exit,
                 tests, unit, config, summary, stop, todo, futures, queue,
                   executing, done, started, runs, now,
                   calls>>

(* executor.shutdown(wait=False, cancel_futures=True); break *)
Cancel ==
    /\ pc = "cancel"
    /\ queue' = <<>>
    /\ done' = {}
    /\ pc' = "join"
    /\ UNCHANGED <<analytics, discovery, shopee, mutex, exit,
                 tests, unit, config, summary, stop, todo, futures,
                   executing, started, runs, now,
                   calls>>

(* Variant of Join that does not wait for the workers (shutdown(wait=False)) *)
Join_NoWait ==
    /\ pc = "join"
    /\ pc' = "tail"
    /\ UNCHANGED <<analytics, discovery, shopee, mutex, exit,
                 tests, unit, config, summary, stop, todo, futures, queue,
                   executing, done, started, runs, now, calls>>

(* The with block exits: ThreadPoolExecutor.__exit__ is shutdown(wait=True), *)
(* which returns when the queue is drained and every worker has finished.    *)
Join ==
    /\ pc = "join"
    /\ queue = <<>>
    /\ executing = {}
    /\ pc' = "tail"
    /\ UNCHANGED <<analytics, discovery, shopee, mutex, exit,
                 tests, unit, config, summary, stop, todo, futures, queue,
                   executing, done, started, runs, now,
                   calls>>

(* _run_parallel, sequential tests: the stop check passes, the next begins *)
TailStart ==
    /\ pc = "tail"
    /\ todo # <<>>
    /\ ~stop
    /\ executing' = executing \cup {Head(todo)}
    /\ started' = Append(started, Head(todo))
    /\ pc' = "tail_exec"
    /\ UNCHANGED <<analytics, discovery, shopee, mutex, exit,
                 tests, unit, config, summary, stop, todo, futures, queue,
                   done, runs, now,
                   calls>>

(* _run_parallel, sequential tests: the test returns, its result is         *)
(* appended and counted.                                                    *)
TailFinish ==
    /\ pc = "tail_exec"
    /\ summary' = Record(summary, Execute(Head(todo)))
    /\ executing' = executing \ {Head(todo)}
    /\ todo' = Tail(todo)
    /\ pc' = "tail"
    /\ UNCHANGED <<analytics, discovery, shopee, mutex, exit,
                 tests, unit, config, stop, futures, queue, done, started,
                   runs, now,
                   calls>>

(* _run_parallel, sequential tests: the list is exhausted or the stop event *)
(* is set; run() returns.                                                   *)
TailExit ==
    /\ pc = "tail"
    /\ todo = <<>> \/ stop
    /\ summary' = Finished(summary)
    /\ now' = now + 1
    /\ todo' = <<>>
    /\ pc' = "returned"
    /\ UNCHANGED <<analytics, discovery, shopee, mutex, exit,
                 tests, unit, config, stop, futures, queue, executing,
                   done, started, runs,
                   calls>>

(* CIOrchestrator.run_ci_pipeline: the success it returns *)
run_ci_pipeline(s) == s.failed = 0 /\ s.errors = 0

(* main() without --ci: the success it computes *)
main_success(s) == s.failed = 0

(* main(), after run() has returned and print_summary() has printed the
   summary: sys.exit(0 if success else 1), with or without --ci *)
sys_exit ==
    /\ pc = "returned"
    /\ calls = 0
    /\ pc' = "exited"
    /\ \E ci \in BOOLEAN :
         LET success == IF ci THEN run_ci_pipeline(summary)
                              ELSE main_success(summary)
         IN  exit' = [ci |-> ci, code |-> IF success THEN 0 ELSE 1]
    /\ UNCHANGED <<analytics, discovery, shopee, mutex, tests, unit, config, summary, stop,
                   todo, futures, queue, executing, done, started, runs,
                   now, calls>>

(* Another thread sets the stop event *)
SetStop ==
    /\ ~stop
    /\ pc # "exited"
    /\ stop' = TRUE
    /\ UNCHANGED <<analytics, discovery, shopee, mutex, exit,
                 tests, unit, config, summary, pc, todo, futures, queue,
                   executing, done, started, runs, now,
                   calls>>

Next ==
    \/ run
    \/ SeqStart
    \/ SeqFinish
    \/ SeqExit
    \/ WorkerStart
    \/ WorkerFinish
    \/ Collect
    \/ CollectEnd
    \/ Cancel
    \/ Join
    \/ TailStart
    \/ TailFinish
    \/ TailExit
    \/ SetStop

Spec == Init /\ [][Next]_vars

SpecRerun == InitRerun /\ [][Next]_vars

SpecFilter == InitFilter /\ [][Next]_vars

SpecEngine == InitEngine /\ [][Next]_vars

(* The steps of the thread that called run(): it is scheduled as long as it
   is not blocked in as_completed or in the exit of the with block *)
MainThread ==
    \/ SeqStart
    \/ SeqFinish
    \/ SeqExit
    \/ Collect
    \/ CollectEnd
    \/ Cancel
    \/ Join
    \/ TailStart
    \/ TailFinish
    \/ TailExit

(* The steps of the pool's threads: a free thread takes a queued work item,
   and every execution of a test terminates *)
PoolThreads == WorkerStart \/ WorkerFinish

(* A run in which every thread that can take a step eventually takes one;
   nothing makes the caller call run() or anybody set the stop event *)
SpecFair ==
    InitPool /\ [][Next]_vars /\ WF_vars(MainThread) /\ WF_vars(PoolThreads)

----------------------------------------------------------------------------
(* The recording of a result, statement by statement: results.append(result)
   is one step and self._update_summary(result) the next.  Only the loop
   over as_completed runs the two inside `with self._summary_lock`. *)

(* The result appended last: the local variable result of the loop *)
Last(s) == s.results[Len(s.results)]

(* _run_sequential: the test returns, self.summary.results.append(result) *)
SeqAppend ==
    /\ pc = "seq_exec"
    /\ summary' = [summary EXCEPT
                     !.results = Append(@, Execute(Head(todo)))]
    /\ executing' = {}
    /\ pc' = "seq_count"
    /\ UNCHANGED <<analytics, discovery, shopee, mutex, exit,
                   tests, unit, config, stop, todo, futures, queue, done,
                   started, runs, now, calls>>

(* _run_sequential: self._update_summary(result), then the fail_fast test *)
SeqCount ==
    /\ pc = "seq_count"
    /\ LET result == Last(summary)
       IN  IF config.fail_fast /\ IsFailure(result)
           THEN /\ summary' = Finished(_update_summary(summary, result))
                /\ now' = now + 1
                /\ todo' = <<>>
                /\ pc' = "returned"
           ELSE /\ summary' = _update_summary(summary, result)
                /\ now' = now
                /\ todo' = Tail(todo)
                /\ pc' = "seq"
    /\ UNCHANGED <<analytics, discovery, shopee, mutex, exit,
                   tests, unit, config, stop, futures, queue, executing,
                   done, started, runs, calls>>

(* _run_parallel: as_completed yields a future and the stop event is set *)
CollectBreak ==
    /\ pc = "collect"
    /\ done # {}
    /\ stop
    /\ pc' = "join"
    /\ done' = {}
    /\ UNCHANGED <<analytics, discovery, shopee, mutex, exit,
                   tests, unit, config, summary, stop, todo, futures, queue,
                   executing, started, runs, now, calls>>

(* _run_parallel: as_completed yields a future, the lock is acquired,
   self.summary.results.append(result) *)
CollectAppend ==
    /\ pc = "collect"
    /\ ~stop
    /\ mutex = "free"
    /\ \E result \in done :
         /\ summary' = [summary EXCEPT !.results = Append(@, result)]
         /\ done' = done \ {result}
    /\ mutex' = "main"
    /\ pc' = "collect_count"
    /\ UNCHANGED <<analytics, discovery, shopee, exit,
                   tests, unit, config, stop, todo, futures, queue,
                   executing, started, runs, now, calls>>

(* _run_parallel: self._update_summary(result), the lock is released, then
   the fail_fast test *)
CollectCount ==
    /\ pc = "collect_count"
    /\ summary' = _update_summary(summary, Last(summary))
    /\ mutex' = "free"
    /\ pc' = IF config.fail_fast /\ IsFailure(Last(summary))
             THEN "cancel" ELSE "collect"
    /\ UNCHANGED <<analytics, discovery, shopee, exit,
                   tests, unit, config, stop, todo, futures, queue,
                   executing, done, started, runs, now, calls>>

(* _run_parallel, sequential tests: the test returns,
   self.summary.results.append(result) *)
TailAppend ==
    /\ pc = "tail_exec"
    /\ summary' = [summary EXCEPT
                     !.results = Append(@, Execute(Head(todo)))]
    /\ executing' = executing \ {Head(todo)}
    /\ pc' = "tail_count"
    /\ UNCHANGED <<analytics, discovery, shopee, mutex, exit,
                   tests, unit, config, stop, todo, futures, queue, done,
                   started, runs, now, calls>>

(* _run_parallel, sequential tests: self._update_summary(result) *)
TailCount ==
    /\ pc = "tail_count"
    /\ summary' = _update_summary(summary, Last(summary))
    /\ todo' = Tail(todo)
    /\ pc' = "tail"
    /\ UNCHANGED <<analytics, discovery, shopee, mutex, exit,
                   tests, unit, config, stop, futures, queue, executing,
                   done, started, runs, now, calls>>

NextStatements ==
    \/ run
    \/ SeqStart
    \/ SeqAppend
    \/ SeqCount
    \/ SeqExit
    \/ WorkerStart
    \/ WorkerFinish
    \/ CollectBreak
    \/ CollectAppend
    \/ CollectCount
    \/ CollectEnd
    \/ Cancel
    \/ Join
    \/ TailStart
    \/ TailAppend
    \/ TailCount
    \/ TailExit
    \/ SetStop

SpecStatements == Init /\ [][NextStatements]_vars

(* The command-line process: main() runs the orchestrator once and exits *)
NextMain ==
    \/ Next
    \/ sys_exit

SpecMain == Init /\ [][NextMain]_vars

----------------------------------------------------------------------------
(* The analytics store of src/tests/monitoring.py.

   A row of test_results is [test_id, status, duration, age]: duration in
   hundredths of a second, age the number of days between the row's
   timestamp and now.  The table is a bag of rows.  Fractions the code
   computes in floating point are kept exact, as [num, den]. *)

MaxIds == 3

MaxAdvised == 9

MaxExecutions == 1

(* No orchestrator runs in the process that queries the store *)
NoOrchestrator ==
    /\ tests = <<>>
    /\ unit = <<>>
    /\ config = [max_workers |-> MaxWorkers, parallel |-> TRUE,
                 fail_fast |-> FALSE, retry_flaky |-> retry_flaky,
                 categories |-> TestCategory]
    /\ summary = ExecutionSummary(0)
    /\ stop = FALSE
    /\ pc = "idle"
    /\ todo = <<>>
    /\ futures = <<>>
    /\ queue = <<>>
    /\ executing = {}
    /\ done = {}
    /\ started = <<>>
    /\ runs = 0
    /\ calls = 0
    /\ now = 1
    /\ exit = NotExited
    /\ mutex = "free"

(* The histories a test id may have in test_results, each a set of rows with
   the number of times the row occurs:
   1. 10 runs in the last week, 3 of them failed, 0.5 s each;
   2. a pass of 0.5 s and an error of 1.5 s in the last week;
   3. a pass of 5 s in the last week and a failure of 5 s 20 days ago;
   4. a pass of 0.8 s in the last week;
   5. a failure of 6 s 40 days ago. *)
Histories ==
    << { [status |-> "passed", duration |-> 50, age |-> 3, count |-> 7],
         [status |-> "failed", duration |-> 50, age |-> 3, count |-> 3] },
       { [status |-> "passed", duration |-> 50, age |-> 3, count |-> 1],
         [status |-> "error", duration |-> 150, age |-> 3, count |-> 1] },
       { [status |-> "passed", duration |-> 500, age |-> 3, count |-> 1],
         [status |-> "failed", duration |-> 500, age |-> 20, count |-> 1] },
       { [status |-> "passed", duration |-> 80, age |-> 3, count |-> 1] },
       { [status |-> "failed", duration |-> 600, age |-> 40, count |-> 1] } >>

(* The table in which test id i has the history Histories[a[i]] *)
Table(a) ==
    LET pairs == UNION { {<<i, e>> : e \in Histories[a[i]]} : i \in DOMAIN a }
        row(p) == [test_id |-> p[1], status |-> p[2].status,
                   duration |-> p[2].duration, age |-> p[2].age]
    IN  [r \in {row(p) : p \in pairs} |->
            (CHOOSE p \in pairs : row(p) = r)[2].count]

(* The arguments the callers of the model pass *)
Days == {7, 30}

(* threshold of get_flaky_tests, in hundredths *)
FlakyThresholds == {20, 30, 50}

(* threshold of get_slow_tests, in hundredths of a second *)
SlowThresholds == {50, 100}

(* The summaries handed to record_execution: of a run without tests, and of
   a run with two outcomes *)
Summaries ==
    { [total |-> 0, passed |-> 0, failed |-> 0, errors |-> 0, results |-> <<>>],
      [total |-> 2, passed |-> 1, failed |-> 1, errors |-> 0,
       results |-> <<"passed", "failed">>],
      [total |-> 3, passed |-> 0, failed |-> 0, errors |-> 1,
       results |-> <<"error">>] }

(* TestAnalytics(db_path) on an existing database file that holds up to n
   test ids with histories out of hs: _init_db creates nothing new.  Test
   ids are interchangeable, so the histories are given in ascending order. *)
Open(n, hs) ==
    /\ NoOrchestrator
    /\ NoDiscovery
    /\ NoShop
    /\ executions = <<>>
    /\ answer = NoCall
    /\ \E m \in 0..n :
         \E a \in [1..m -> hs] :
           /\ \A i \in 1..m : \A j \in 1..m : i < j => a[i] <= a[j]
           /\ test_results = Table(a)

(* A store of a few tests with any of the histories *)
InitStore == Open(MaxIds, 1..Len(Histories))

(* A store of many tests, each run in the last week *)
InitAdvice == Open(MaxAdvised, {2, 3, 4})

(* WHERE timestamp > cutoff, cutoff being now - days *)
Window(days) == {r \in DOMAIN test_results : r.age < days}

(* WHERE test_id = id AND timestamp > cutoff *)
RowsOf(id, days) == {r \in Window(days) : r.test_id = id}

(* The values of test_id in the window: the groups of GROUP BY test_id *)
Groups(days) == {r.test_id : r \in Window(days)}

(* COUNT over the rows S *)
COUNT(S) == BagCardinality([r \in S |-> test_results[r]])

(* SUM(CASE WHEN status != 'passed' THEN 1 ELSE 0 END) over the rows S *)
FAILURES_FailedOnly(S) == COUNT({r \in S : r.status = "failed"})

FAILURES(S) == COUNT({r \in S : r.status # "passed"})

(* SUM(duration) over the rows S *)
RECURSIVE SUM_duration(_)
SUM_duration(S) ==
    IF S = {} THEN 0
    ELSE LET r == CHOOSE x \in S : TRUE
         IN  r.duration * test_results[r] + SUM_duration(S \ {r})

(* MAX(timestamp) over the rows S: the smallest age *)
MAX_timestamp(S) == CHOOSE g \in {r.age : r \in S} : \A r \in S : g <= r.age

(* a / b as an exact fraction *)
Frac(a, b) == [num |-> a, den |-> b]

(* The same fraction in lowest terms *)
RECURSIVE GCD(_, _)
GCD(a, b) == IF b = 0 THEN a ELSE GCD(b, a % b)

Reduced(x) ==
    IF x.num = 0 THEN [num |-> 0, den |-> 1]
    ELSE [num |-> x.num \div GCD(x.num, x.den),
          den |-> x.den \div GCD(x.num, x.den)]

(* x > y and x >= y for fractions with positive denominators *)
Greater(x, y) == x.num * y.den > y.num * x.den

AtLeast(x, y) == x.num * y.den >= y.num * x.den

(* TestMetrics: the fields the queries fill with data *)
TestMetrics(id, avg, rate, total, failures, flakiness, last) ==
    [test_id |-> id, avg_duration |-> avg, success_rate |-> rate,
     total_runs |-> total, failures |-> failures,
     flakiness_score |-> flakiness, last_run |-> last]

(* get_test_metrics *)
get_test_metrics(test_id, days) ==
    LET S == RowsOf(test_id, days)
        total == COUNT(S)
        failures == FAILURES(S)
    IN  IF S = {}
        THEN TestMetrics(test_id, Frac(0, 1), Frac(0, 1), 0, 0, Frac(0, 1), 0)
        ELSE TestMetrics(test_id,
                         Frac(SUM_duration(S), total),
                         IF total > 0 THEN Frac((total - failures) * 100, total)
                                      ELSE Frac(0, 1),
                         total, failures,
                         IF total > 0 THEN Frac(failures, total)
                                      ELSE Frac(0, 1),
                         MAX_timestamp(S))

(* ORDER BY key DESC over the groups ids: sqlite3 sorts the groups, which
   GROUP BY yields in ascending test_id, stably by descending key *)
RECURSIVE ORDER_BY_DESC(_, _)
ORDER_BY_DESC(ids, key) ==
    IF ids = {} THEN <<>>
    ELSE LET top == {i \in ids : \A j \in ids : AtLeast(key[i], key[j])}
             first == CHOOSE i \in top : \A j \in top : i <= j
         IN  <<first>> \o ORDER_BY_DESC(ids \ {first}, key)

(* HAVING (CAST(failures AS FLOAT) / COUNT) > threshold of get_flaky_tests *)
HAVING_flaky_AtLeast(failures, total, threshold) ==
    AtLeast(Frac(failures, total), Frac(threshold, 100))

HAVING_flaky(failures, total, threshold) ==
    Greater(Frac(failures, total), Frac(threshold, 100))

(* get_flaky_tests: GROUP BY test_id, HAVING, ORDER BY failures DESC *)
get_flaky_tests(threshold, days) ==
    LET total(id) == COUNT(RowsOf(id, days))
        failures(id) == FAILURES(RowsOf(id, days))
        having == {id \in Groups(days) :
                     HAVING_flaky(failures(id), total(id), threshold)}
        order == ORDER_BY_DESC(having,
                               [id \in having |-> Frac(failures(id), 1)])
    IN  [i \in 1..Len(order) |->
            TestMetrics(order[i], Frac(0, 1),
                        Frac((total(order[i]) - failures(order[i])) * 100,
                             total(order[i])),
                        total(order[i]), failures(order[i]),
                        Frac(failures(order[i]), total(order[i])), 0)]

(* get_slow_tests: HAVING AVG(duration) > threshold, ORDER BY avg_duration
   DESC *)
get_slow_tests(threshold, days) ==
    LET total(id) == COUNT(RowsOf(id, days))
        failures(id) == FAILURES(RowsOf(id, days))
        avg(id) == Frac(SUM_duration(RowsOf(id, days)), total(id))
        having == {id \in Groups(days) : Greater(avg(id), Frac(threshold, 1))}
        order == ORDER_BY_DESC(having, [id \in having |-> avg(id)])
    IN  [i \in 1..Len(order) |->
            TestMetrics(order[i], avg(order[i]),
                        Frac((total(order[i]) - failures(order[i])) * 100,
                             total(order[i])),
                        total(order[i]), failures(order[i]),
                        Frac(failures(order[i]), total(order[i])), 0)]

(* max and min of Python *)
max(a, b) == IF a >= b THEN a ELSE b

min(a, b) == IF a <= b THEN a ELSE b

(* sum(m.avg_duration for m in metrics), as a fraction *)
RECURSIVE sum_avg_duration(_)
sum_avg_duration(metrics) ==
    IF metrics = <<>> THEN Frac(0, 1)
    ELSE LET m == Head(metrics).avg_duration
             rest == sum_avg_duration(Tail(metrics))
         IN  Reduced(Frac(m.num * rest.den + rest.num * m.den,
                          m.den * rest.den))

(* PerformanceAnalyzer._estimate_speedup *)
_estimate_speedup(metrics, workers) ==
    IF metrics = <<>> THEN Frac(1, 1)
    ELSE LET sequential_time == sum_avg_duration(metrics)
             parallel_time == Reduced(Frac(sequential_time.num,
                                           sequential_time.den
                                               * max(1, workers)))
         IN  IF parallel_time.num > 0
             THEN Frac((sequential_time.num \div parallel_time.num)
                           * parallel_time.den,
                       sequential_time.den)
             ELSE Frac(1, 1)

(* suggested_workers of suggest_parallelization *)
suggested_workers_NoFloor(medium, slow) == min(8, Len(medium) + Len(slow))

suggested_workers(medium, slow) == max(2, min(8, Len(medium) + Len(slow)))

(* PerformanceAnalyzer.suggest_parallelization *)
suggest_parallelization ==
    LET slow_tests == get_slow_tests(50, 7)
        fast == SelectSeq(slow_tests,
                          LAMBDA t : ~AtLeast(t.avg_duration, Frac(100, 1)))
        medium == SelectSeq(slow_tests,
                            LAMBDA t : /\ AtLeast(t.avg_duration, Frac(100, 1))
                                       /\ ~AtLeast(t.avg_duration, Frac(500, 1)))
        slow == SelectSeq(slow_tests,
                          LAMBDA t : AtLeast(t.avg_duration, Frac(500, 1)))
    IN  [fast_tests |-> Len(fast), medium_tests |-> Len(medium),
         slow_tests |-> Len(slow),
         suggested_workers |-> suggested_workers(medium, slow),
         estimated_speedup |->
             _estimate_speedup(slow_tests, suggested_workers(medium, slow))]

(* record_execution(execution_id, summary): one INSERT INTO executions *)
record_execution ==
    /\ Len(executions) < MaxExecutions
    /\ \E s \in Summaries :
         /\ executions' = Append(executions,
                [id |-> Len(executions) + 1, timestamp |-> now,
                 total_tests |-> s.total, passed |-> s.passed,
                 failed |-> s.failed, errors |-> s.errors])
    /\ UNCHANGED <<orchestration, discovery, shopee, test_results, answer>>

(* The test ids of the store *)
TestIds == {r.test_id : r \in DOMAIN test_results}

(* A caller asks for the metrics of a test id, one of the store or one the
   store has never seen (0).  A query leaves the store as it is, so the
   behaviours of the model keep the answer of one query each. *)
ask_test_metrics ==
    /\ answer = NoCall
    /\ \E id \in TestIds \cup {0} : \E days \in Days :
         answer' = [op |-> "get_test_metrics", test_id |-> id, days |-> days,
                    value |-> get_test_metrics(id, days)]
    /\ UNCHANGED <<orchestration, discovery, shopee, executions, test_results>>

(* A caller asks for the flaky tests *)
ask_flaky_tests ==
    /\ answer = NoCall
    /\ \E t \in FlakyThresholds : \E days \in Days :
         answer' = [op |-> "get_flaky_tests", threshold |-> t, days |-> days,
                    value |-> get_flaky_tests(t, days)]
    /\ UNCHANGED <<orchestration, discovery, shopee, executions, test_results>>

(* A caller asks for the slow tests *)
ask_slow_tests ==
    /\ answer = NoCall
    /\ \E t \in SlowThresholds : \E days \in Days :
         answer' = [op |-> "get_slow_tests", threshold |-> t, days |-> days,
                    value |-> get_slow_tests(t, days)]
    /\ UNCHANGED <<orchestration, discovery, shopee, executions, test_results>>

(* A caller asks for the parallelization advice *)
ask_parallelization ==
    /\ answer = NoCall
    /\ answer' = [op |-> "suggest_parallelization",
                  value |-> suggest_parallelization]
    /\ UNCHANGED <<orchestration, discovery, shopee, executions, test_results>>

NextStore ==
    \/ record_execution
    \/ ask_test_metrics
    \/ ask_flaky_tests
    \/ ask_slow_tests
    \/ ask_parallelization

SpecStore == InitStore /\ [][NextStore]_vars

SpecAdvice == InitAdvice /\ [][NextStore]_vars

----------------------------------------------------------------------------
(* Test discovery: TestDiscovery of src/tests/orchestrator.py.

   A file is what discovery can tell of it: whether open() and read()
   succeed, whether ast.parse() accepts the text, whether the text contains
   "@patch", and its classes.  A class has a name, whether one of its bases
   is named with 'TestCase', and its function definitions; a definition is
   a plain def in the class body ("def"), an async def in the class body
   ("async"), or a def inside a method ("nested").  A name is the sequence
   of its words: <<"test", "one">> is test_one; a docstring is the sequence
   of the words the heuristics look for. *)

MaxFiles == 3

(* A function definition: its name, the words of its docstring, its kind *)
Def(name, doc, kind) == [name |-> name, doc |-> doc, kind |-> kind]

(* The files rglob("test_*.py") may find *)
TestFiles ==
    { [stem |-> "test_a", readable |-> TRUE, parses |-> TRUE, patch |-> FALSE,
       classes |-> << [name |-> "TestA", test_case |-> TRUE,
                       defs |-> << Def(<<"test", "one">>, <<>>, "def"),
                                   Def(<<"helper">>, <<>>, "def"),
                                   Def(<<"test", "auth", "critical">>, <<>>,
                                       "def") >>] >>],
      [stem |-> "test_b", readable |-> TRUE, parses |-> TRUE, patch |-> TRUE,
       classes |-> << [name |-> "TestA", test_case |-> TRUE,
                       defs |-> << Def(<<"test", "one">>, <<>>, "def"),
                                   Def(<<"test", "api">>, <<>>, "def") >>] >>],
      [stem |-> "test_c", readable |-> TRUE, parses |-> TRUE, patch |-> FALSE,
       classes |-> << [name |-> "TestC", test_case |-> TRUE,
                       defs |-> << Def(<<"test", "io">>, <<>>, "async"),
                                   Def(<<"test", "mock">>, <<>>, "def"),
                                   Def(<<"test", "integration", "flaky">>,
                                       <<"unstable", "login">>, "def") >>] >>],
      [stem |-> "test_d", readable |-> TRUE, parses |-> FALSE, patch |-> FALSE,
       classes |-> << [name |-> "TestD", test_case |-> TRUE,
                       defs |-> << Def(<<"test", "request">>, <<>>,
                                       "def") >>] >>],
      [stem |-> "test_e", readable |-> FALSE, parses |-> TRUE, patch |-> FALSE,
       classes |-> << [name |-> "TestE", test_case |-> TRUE,
                       defs |-> << Def(<<"test", "two">>, <<>>, "def") >>] >>],
      [stem |-> "test_f", readable |-> TRUE, parses |-> TRUE, patch |-> FALSE,
       classes |-> << [name |-> "Helper", test_case |-> FALSE,
                       defs |-> << Def(<<"test", "three">>, <<>>,
                                       "def") >>] >>] }

(* item.name.startswith('test_'), and the group test_\w+ of the regex *)
IsTestName(name) == Len(name) > 1 /\ Head(name) = "test"

(* word in name.lower() *)
Contains(name, word) == \E i \in 1..Len(name) : name[i] = word

(* TestDiscovery._detect_category_from_name *)
_detect_category_from_name(name, f) ==
    IF Contains(name, "mock") \/ f.patch THEN "mock"
    ELSE IF Contains(name, "api") \/ Contains(name, "request") THEN "api"
    ELSE "unit"

(* The TestMetadata both analyses build for the method m of the class c of
   the file f *)
Discovered(f, c, m) ==
    TestMetadata(<<c.name, m.name>>, MEDIUM, 10, FALSE, TRUE,
                 _detect_category_from_name(m.name, f))
        @@ [module |-> f.stem, requires_network |-> FALSE,
            requires_auth |-> FALSE]

(* The definitions one analysis of the file f finds: those of a kind out of
   kinds, named test_*, in the classes derived from TestCase *)
Found(f, kinds) ==
    UNION { { <<i, j>> : j \in { n \in 1..Len(f.classes[i].defs) :
                                   /\ f.classes[i].test_case
                                   /\ f.classes[i].defs[n].kind \in kinds
                                   /\ IsTestName(f.classes[i].defs[n].name) } } :
            i \in 1..Len(f.classes) }

(* The dict entries the definitions found give, keyed by Class.method *)
Entries(f, found) ==
    LET key(p) == <<f.classes[p[1]].name, f.classes[p[1]].defs[p[2]].name>>
    IN  [k \in {key(p) : p \in found} |->
            LET p == CHOOSE q \in found : key(q) = k
            IN  Discovered(f, f.classes[p[1]], f.classes[p[1]].defs[p[2]])]

(* _manual_analyze, when ast.parse succeeds: the ast.FunctionDef items of
   the body of the class *)
ast_analyze(f) == Entries(f, Found(f, {"def"}))

(* _manual_analyze_fallback: every "def test_...(" of the text of the class,
   which an async def and a nested def contain as well *)
_manual_analyze_fallback(f) == Entries(f, Found(f, {"def", "async", "nested"}))

(* _manual_analyze *)
_manual_analyze(f) ==
    IF f.parses THEN ast_analyze(f) ELSE _manual_analyze_fallback(f)

(* self.tests[full_name] = metadata, for every entry of new *)
Update(d, new) ==
    [k \in DOMAIN d \cup DOMAIN new |-> IF k \in DOMAIN new THEN new[k] ELSE d[k]]

(* TestDiscovery(test_dirs) on a tree of up to MaxFiles matched files *)
InitDiscovery ==
    /\ NoOrchestrator
    /\ NoAnalytics
    /\ NoShop
    /\ discovered = <<>>
    /\ scan = [state |-> "idle", next |-> 1]
    /\ \E n \in 0..MaxFiles :
         \E fs \in [1..n -> TestFiles] :
           /\ \A i \in 1..n : \A j \in 1..n : i # j => fs[i] # fs[j]
           /\ files = fs

(* discover(), up to the first file: self.tests = {} *)
discover ==
    /\ scan.state = "idle"
    /\ discovered' = <<>>
    /\ scan' = [state |-> "files", next |-> 1]
    /\ UNCHANGED <<orchestration, analytics, shopee, files>>

(* _analyze_test_file of the next file: open() and read() raise for a file
   that cannot be read, and nothing catches the exception; else the file is
   analysed and its tests are put into self.tests *)
_analyze_test_file ==
    /\ scan.state = "files"
    /\ scan.next <= Len(files)
    /\ IF files[scan.next].readable
       THEN /\ discovered' = Update(discovered, _manual_analyze(files[scan.next]))
            /\ scan' = [scan EXCEPT !.next = scan.next + 1]
       ELSE /\ scan' = [scan EXCEPT !.state = "raised"]
            /\ UNCHANGED discovered
    /\ UNCHANGED <<orchestration, analytics, shopee, files>>

(* discover(): return self.tests *)
discover_return ==
    /\ scan.state = "files"
    /\ scan.next > Len(files)
    /\ scan' = [scan EXCEPT !.state = "done"]
    /\ UNCHANGED <<orchestration, analytics, shopee, files, discovered>>

NextDiscovery ==
    \/ discover
    \/ _analyze_test_file
    \/ discover_return

SpecDiscovery == InitDiscovery /\ [][NextDiscovery]_vars

----------------------------------------------------------------------------
(* get_tipo_loja of src/scripts/shopee_api.py.  The argument is None
   (given FALSE) or a list of shop type codes. *)

(* The longest shop_type_list *)
MaxShopTypes == 3

(* The shop type codes a list may hold: 1, 2 and 4 are known, 3 is not *)
ShopTypes == {1, 2, 3, 4}

(* x in shop_type_list *)
In(x, list) == \E i \in 1..Len(list) : list[i] = x

(* get_tipo_loja with Star tested before Star+ *)
get_tipo_loja_StarFirst(l) ==
    IF ~l.given \/ l.list = <<>> THEN ""
    ELSE IF In(1, l.list) THEN "Mall"
    ELSE IF In(2, l.list) THEN "Star"
    ELSE IF In(4, l.list) THEN "Star+"
    ELSE ""

(* get_tipo_loja(shop_type_list): not shop_type_list is true of None and of
   the empty list *)
get_tipo_loja(l) ==
    IF ~l.given \/ l.list = <<>> THEN ""
    ELSE IF In(1, l.list) THEN "Mall"
    ELSE IF In(4, l.list) THEN "Star+"
    ELSE IF In(2, l.list) THEN "Star"
    ELSE ""

(* A caller about to call get_tipo_loja with None or with a list *)
InitShop ==
    /\ NoOrchestrator
    /\ NoAnalytics
    /\ NoDiscovery
    /\ tipo_loja = NotAsked
    /\ \/ shop_type_list = [given |-> FALSE, list |-> <<>>]
       \/ \E n \in 0..MaxShopTypes :
            \E l \in [1..n -> ShopTypes] :
              shop_type_list = [given |-> TRUE, list |-> l]

(* The call get_tipo_loja(shop_type_list) *)
ask_tipo_loja ==
    /\ ~tipo_loja.called
    /\ tipo_loja' = [called |-> TRUE, value |-> get_tipo_loja(shop_type_list)]
    /\ UNCHANGED <<orchestration, analytics, discovery, shop_type_list>>

NextShop == ask_tipo_loja

SpecShop == InitShop /\ [][NextShop]_vars

----------------------------------------------------------------------------
(* Vocabulary of the properties *)

(* The strategy run() chooses: the pool, or the sequential loop *)
UsesPool == config.parallel /\ Len(_filter_tests(tests)) > 1

(* run() is between its first and its last statement *)
Running == pc \notin {"idle", "returned", "raised", "exited"}

(* A failed or errored outcome has been recorded *)
FailureRecorded ==
    \E i \in 1..Len(summary.results) : IsFailure(summary.results[i])

(* How many times x occurs in the sequence s *)
Count(x, s) == Cardinality({i \in 1..Len(s) : s[i] = x})

(* The tests of the sorted list, by position *)
Dispatch == Names(sorted(_filter_tests(tests)))

----------------------------------------------------------------------------
(* C1: after run() returns, passed + failed + errors + skipped == total,   *)
(* for every test set and every configuration (stated for the runs the     *)
(* stop event does not cut short).                                         *)
C1_CountersSumToTotal ==
    (pc = "returned" /\ ~stop) =>
        summary.passed + summary.failed + summary.errors + summary.skipped
            = summary.total

(* C2: fail_fast, sequential mode, three tests, the first passes and the   *)
(* second fails: run() returns total == 2, the third test is never         *)
(* executed and has no entry in the outcomes.                              *)
C2_FailFastScenario ==
    ( /\ config.fail_fast
      /\ ~config.parallel
      /\ ~stop
      /\ Len(tests) = 3
      /\ Execute(Dispatch[1]).status = "passed"
      /\ Execute(Dispatch[2]).status = "failed" )
    => /\ Count(Dispatch[3], started) = 0
       /\ pc = "returned" =>
            /\ summary.total = 2
            /\ \A i \in 1..Len(summary.results) :
                 summary.results[i].test_id # Dispatch[3]

(* C3: in parallel mode with fail_fast, once a failed or errored outcome   *)
(* has been recorded no further test begins: neither a queued parallel-    *)
(* safe test nor a test of the sequential tail.                            *)
C3_NoStartAfterFailure ==
    [][ (UsesPool /\ Running /\ config.fail_fast /\ FailureRecorded)
            => started' = started ]_vars

(* C4: a test that is not parallel-safe never executes at the same time as *)
(* any other test; the sequential tail starts only when the pool has no    *)
(* queued and no running work, also after a fail-fast shutdown.            *)
C4_UnsafeRunsAlone ==
    /\ \A n \in executing : ~tests[n].parallel_safe => executing = {n}
    /\ pc \in {"tail", "tail_exec"} => queue = <<>>
    /\ Cardinality(executing) > 1 => PoolOpen

(* A tail test executes after a fail-fast shutdown that left a pool test   *)
(* in flight (started, never recorded).                                    *)
C4_Witness ==
    /\ pc = "tail_exec"
    /\ config.fail_fast
    /\ FailureRecorded
    /\ Len(started) > Len(summary.results) + 1

(* The outcomes (test_id, status) of a list of results, as a multiset *)
Outcomes(rs) ==
    LET o(i) == <<rs[i].test_id, rs[i].status>>
    IN  [x \in {o(i) : i \in 1..Len(rs)} |->
            Cardinality({i \in 1..Len(rs) : o(i) = x})]

(* The results of a sequential run of the tests without fail_fast: one per *)
(* test, in dispatch order.                                                *)
SequentialResults == [i \in 1..Len(Dispatch) |-> Execute(Dispatch[i])]

(* C5: without fail_fast, a parallel run and a sequential run of the same  *)
(* tests give the same multiset of (test_id, status), whatever the order   *)
(* in which the pool's workers complete.                                   *)
C5_SameOutcomes ==
    (pc = "returned" /\ ~config.fail_fast /\ ~stop)
        => Outcomes(summary.results) = Outcomes(SequentialResults)

(* A parallel run of three tests has returned with its results in another  *)
(* order than the sequential run's.                                        *)
C5_Witness ==
    /\ pc = "returned"
    /\ UsesPool
    /\ ~config.fail_fast
    /\ ~stop
    /\ Len(summary.results) = 3
    /\ summary.results # SequentialResults

(* C6: once the stop event is set, no test begins execution *)
C6_NoStartAfterStop ==
    [][ stop => started' = started ]_vars

(* The names of s are in ascending order of (priority, estimated duration) *)
Ascending(s) ==
    \A i, j \in 1..Len(s) :
        i < j =>
            \/ tests[s[i]].priority < tests[s[j]].priority
            \/ /\ tests[s[i]].priority = tests[s[j]].priority
               /\ tests[s[i]].estimated_duration
                      <= tests[s[j]].estimated_duration

(* s is a prefix of t *)
IsPrefix(s, t) == Len(s) <= Len(t) /\ s = SubSeq(t, 1, Len(s))

(* C7: tests are dispatched in ascending order of (priority, estimated     *)
(* duration): the sequential loop executes them in that order; in parallel *)
(* mode the parallel-safe tests are submitted, and taken by the workers,   *)
(* in that order and the sequential tail is executed in that order.        *)
C7_DispatchOrder ==
    /\ ~UsesPool => Ascending(started)
    /\ UsesPool =>
        /\ Ascending(futures)
        /\ IsPrefix(SelectSeq(started, LAMBDA n : tests[n].parallel_safe),
                    futures)
        /\ Ascending(SelectSeq(started, LAMBDA n : ~tests[n].parallel_safe))
    /\ \A n \in 1..Len(tests) : Count(n, started) <= 1

(* A parallel run whose submission order differs from the dict order and   *)
(* whose tail has run.                                                     *)
C7_Witness ==
    /\ UsesPool
    /\ Len(futures) = 2
    /\ futures[1] > futures[2]
    /\ Len(started) = 3
    /\ pc = "returned"

(* The scenario of C8: t1 (Critical, 0.1), t2 (Medium, 5.0), t3 (Low, 1.0), *)
(* fail_fast=false, parallel=false, run to its return.                      *)
C8_Scenario ==
    /\ Len(tests) = 3
    /\ tests[1].priority = CRITICAL /\ tests[1].estimated_duration = 10
    /\ tests[2].priority = MEDIUM /\ tests[2].estimated_duration = 500
    /\ tests[3].priority = LOW /\ tests[3].estimated_duration = 100
    /\ ~config.parallel
    /\ ~config.fail_fast
    /\ ~stop
    /\ pc = "returned"

(* C8 as claimed: in the scenario the execution order is [t1, t3, t2] *)
C8_ClaimedOrder == C8_Scenario => started = <<1, 3, 2>>

(* C8 as amended: in the scenario the execution order is [t1, t2, t3],     *)
(* Medium (2) sorting before Low (3).                                      *)
C8_ScenarioOrder == C8_Scenario => started = <<1, 2, 3>>

(* The scenario has run to its return with all three tests executed *)
C8_Witness == C8_Scenario /\ Len(started) = 3

(* C9: every failure mode of a single test becomes a TestResult: "failed"  *)
(* for an assertion failure, "error" for an exception in the test and for  *)
(* a load failure; and the run continues with the other tests.             *)
C9_FaultsBecomeResults ==
    /\ \A r \in done \cup {summary.results[i] : i \in 1..Len(summary.results)} :
         /\ unit[r.test_id] = "pass" => r.status = "passed"
         /\ unit[r.test_id] = "assert_fail" => r.status = "failed"
         /\ unit[r.test_id] \in {"raise", "import_fail"} => r.status = "error"
    /\ (pc = "returned" /\ ~config.fail_fast /\ ~stop)
         => Len(summary.results) = Len(tests)

(* A run has recorded an assertion failure, an exception and a load        *)
(* failure, the last result coming after a failure.                        *)
C9_Witness ==
    /\ pc = "returned"
    /\ Len(summary.results) = 3
    /\ {unit[summary.results[i].test_id] : i \in 1..3}
           = {"assert_fail", "raise", "import_fail"}

(* C10: a flaky test whose attempt does not pass is executed again until   *)
(* the budget config.retry_flaky is spent, the recorded retry count is the *)
(* number of re-executions, and a test that is not flaky is executed once. *)
C10_FlakyRetried ==
    pc = "returned" =>
        \A i \in 1..Len(summary.results) :
            LET r == summary.results[i]
                attempts == Count(r.test_id, started)
            IN  /\ r.retries = attempts - 1
                /\ attempts - 1 <= config.retry_flaky
                /\ ~tests[r.test_id].flaky => attempts = 1
                /\ (tests[r.test_id].flaky /\ r.status # "passed")
                       => attempts = 1 + config.retry_flaky

----------------------------------------------------------------------------
(* C11: in every reachable state of any sequence of run() calls the success
   rate lies in [0, 100], and it is 0 whenever total is 0.  The summary is
   created once in __init__ and run() resets total but not the counters, so
   a second run() leaves passed above total. *)
C11_SuccessRateInRange ==
    LET r == success_rate(summary) IN
    /\ r.den > 0
    /\ 0 <= r.num
    /\ r.num <= 100 * r.den
    /\ summary.total = 0 => r.num = 0

(* C13: under a configuration with max_workers < 1 no test is ever executed,
   in parallel and in sequential mode alike, for any number of tests.  Only
   the ThreadPoolExecutor constructor rejects such a value, and run() builds
   a pool only when config.parallel holds and more than one test is
   selected. *)
C13_InvalidWorkersRejected == config.max_workers < 1 => started = <<>>

(* C12: the process exits with code 0 if and only if the summary of the run
   has failed = 0 and errors = 0, with --ci and without it.  Without --ci
   main() looks at summary.failed only. *)
C12_ExitCode ==
    pc = "exited" =>
        (exit.code = 0 <=> summary.failed = 0 /\ summary.errors = 0)

(* The tests the claim says run() selects *)
Selected ==
    IF config.categories = {} \/ config.categories = TestCategory
    THEN 1..Len(tests)
    ELSE {n \in 1..Len(tests) : tests[n].category \in config.categories}

(* run() went through every selected test: it returned, and neither the stop
   event nor fail_fast cut it short *)
RanToTheEnd ==
    /\ pc \in {"returned", "exited"}
    /\ ~stop
    /\ ~(config.fail_fast /\ FailureRecorded)

(* C14: run() executes exactly the discovered tests whose category is in
   config.categories when that set is a non-empty proper subset of the
   categories, and all of them when it is empty or holds every category;
   total is the number of tests selected. *)
C14_CategoryFilter ==
    runs > 0 =>
        /\ summary.total = Cardinality(Selected)
        /\ \A i \in 1..Len(started) : started[i] \in Selected
        /\ RanToTheEnd => {started[i] : i \in 1..Len(started)} = Selected

(* A run under a proper subset that selects some tests and leaves some out *)
C14_Witness ==
    /\ RanToTheEnd
    /\ config.categories = {"api", "flaky"}
    /\ Selected # {}
    /\ Selected # 1..Len(tests)
    /\ Len(started) = Cardinality(Selected)

----------------------------------------------------------------------------
(* Vocabulary of the properties of the store *)

(* The outcomes of a test in the window, and those that are not passed *)
Runs(id, days) == COUNT(RowsOf(id, days))

NotPassed(id, days) ==
    Runs(id, days) - COUNT({r \in RowsOf(id, days) : r.status = "passed"})

(* The test ids a list of metrics names *)
IdsOf(v) == {v[i].test_id : i \in 1..Len(v)}

(* C15: a call of record_execution for a run with k outcomes adds exactly
   one row to executions and k rows to test_results, and leaves every row
   that existed before as it was.  record_execution performs a single INSERT
   INTO executions; nothing writes test_results. *)
C15_RecordAppends ==
    [][ executions' # executions =>
          LET row == executions'[Len(executions')]
              k == row.passed + row.failed + row.errors
          IN  /\ Len(executions') = Len(executions) + 1
              /\ SubSeq(executions', 1, Len(executions)) = executions
              /\ test_results \sqsubseteq test_results'
              /\ BagCardinality(test_results')
                     = BagCardinality(test_results) + k ]_vars

(* C16: get_flaky_tests(threshold, days) returns exactly the tests whose
   share of not-passed outcomes in the window is strictly above the
   threshold, each once, by descending number of failures; a test with 10
   runs and 3 failures in the window is returned for 0.2 and is not for 0.5,
   nor for 0.3. *)
C16_FlakyTests ==
    answer.op = "get_flaky_tests" =>
        LET v == answer.value
            t == answer.threshold
            d == answer.days
        IN  /\ IdsOf(v) = {id \in TestIds :
                             /\ Runs(id, d) > 0
                             /\ NotPassed(id, d) * 100 > t * Runs(id, d)}
            /\ Len(v) = Cardinality(IdsOf(v))
            /\ \A i \in 1..Len(v) : \A j \in 1..Len(v) :
                 i < j => v[i].failures >= v[j].failures
            /\ \A id \in TestIds :
                 Runs(id, d) = 10 /\ NotPassed(id, d) = 3 =>
                     /\ t = 20 => id \in IdsOf(v)
                     /\ t \in {30, 50} => id \notin IdsOf(v)

(* The test with 10 runs and 3 failures is returned for 0.2, ahead of a test
   with fewer failures *)
C16_Witness ==
    /\ answer.op = "get_flaky_tests"
    /\ answer.threshold = 20
    /\ Len(answer.value) >= 2
    /\ Runs(answer.value[1].test_id, answer.days) = 10
    /\ answer.value[1].failures = 3
    /\ answer.value[Len(answer.value)].failures < 3

(* The row of metrics m tells the window d as the claim says *)
ExactScore(m, d) ==
    /\ m.total_runs = Runs(m.test_id, d)
    /\ m.total_runs > 0
    /\ m.flakiness_score.den > 0
    /\ m.flakiness_score.num * Runs(m.test_id, d)
           = NotPassed(m.test_id, d) * m.flakiness_score.den
    /\ 0 <= m.flakiness_score.num
    /\ m.flakiness_score.num <= m.flakiness_score.den

(* C17: the flakiness score the queries return is (outcomes in the window
   that are not passed) / total_runs and lies in [0, 1]; when no row matches,
   get_test_metrics returns total_runs 0, flakiness 0 and success rate 0. *)
C17_FlakinessScore ==
    /\ answer.op \in {"get_flaky_tests", "get_slow_tests"} =>
         \A i \in 1..Len(answer.value) : ExactScore(answer.value[i], answer.days)
    /\ answer.op = "get_test_metrics" =>
         IF Runs(answer.test_id, answer.days) = 0
         THEN /\ answer.value.total_runs = 0
              /\ answer.value.failures = 0
              /\ answer.value.flakiness_score.num = 0
              /\ answer.value.flakiness_score.den > 0
              /\ answer.value.success_rate.num = 0
              /\ answer.value.success_rate.den > 0
         ELSE /\ answer.value.test_id = answer.test_id
              /\ ExactScore(answer.value, answer.days)

(* The metrics of a test whose only outcome that is not passed is an error *)
C17_Witness ==
    /\ answer.op = "get_test_metrics"
    /\ answer.value.total_runs = 2
    /\ answer.value.flakiness_score = Frac(1, 2)
    /\ \E r \in RowsOf(answer.test_id, answer.days) : r.status = "error"

(* The metrics of a test whose rows are all outside the window *)
C17_NoRowMatches ==
    /\ answer.op = "get_test_metrics"
    /\ answer.test_id \in TestIds
    /\ Runs(answer.test_id, answer.days) = 0
    /\ answer.value.total_runs = 0

(* The tests get_slow_tests(threshold=0.5, days=7) returns, and their
   average durations in hundredths of a second *)
SlowSet ==
    {id \in TestIds : /\ Runs(id, 7) > 0
                      /\ SUM_duration(RowsOf(id, 7)) > 50 * Runs(id, 7)}

MediumSet ==
    {id \in SlowSet : /\ SUM_duration(RowsOf(id, 7)) >= 100 * Runs(id, 7)
                      /\ SUM_duration(RowsOf(id, 7)) < 500 * Runs(id, 7)}

VerySlowSet ==
    {id \in SlowSet : SUM_duration(RowsOf(id, 7)) >= 500 * Runs(id, 7)}

clamp(x, lo, hi) == IF x < lo THEN lo ELSE IF x > hi THEN hi ELSE x

(* C18: suggested_workers = clamp(medium + slow, 2, 8), medium counting the
   tests with 1 s <= average < 5 s and slow those with average >= 5 s; fast,
   medium and slow partition the slow-test set; on an empty slow-test set
   suggested_workers is 2 and estimated_speedup is 1.0. *)
C18_Parallelization ==
    answer.op = "suggest_parallelization" =>
        LET v == answer.value IN
        /\ v.medium_tests = Cardinality(MediumSet)
        /\ v.slow_tests = Cardinality(VerySlowSet)
        /\ v.fast_tests + v.medium_tests + v.slow_tests = Cardinality(SlowSet)
        /\ v.suggested_workers
               = clamp(Cardinality(MediumSet) + Cardinality(VerySlowSet), 2, 8)
        /\ SlowSet = {} =>
               /\ v.suggested_workers = 2
               /\ v.estimated_speedup.num = v.estimated_speedup.den

(* More than 8 medium and slow tests, some of each bucket: the upper clamp *)
C18_Witness ==
    /\ answer.op = "suggest_parallelization"
    /\ answer.value.medium_tests + answer.value.slow_tests > 8
    /\ answer.value.medium_tests > 0
    /\ answer.value.slow_tests > 0
    /\ answer.value.suggested_workers = 8

(* The advice on a store without a slow test *)
C18_EmptySlowSet ==
    /\ answer.op = "suggest_parallelization"
    /\ SlowSet = {}
    /\ answer.value.suggested_workers = 2

----------------------------------------------------------------------------
(* Vocabulary of the properties of discovery *)

(* The methods named test_* in the body of the classes derived from TestCase
   in the file f *)
TestMethods(f) == Found(f, {"def", "async"})

(* The same, over all the files: pairs of a file and a method *)
AllTestMethods ==
    UNION { {<<i, p>> : p \in TestMethods(files[i])} : i \in 1..Len(files) }

(* Every file can be read and parsed and defines its test methods with a
   plain def: the input on which both analyses find the same definitions *)
PlainFiles ==
    \A i \in 1..Len(files) :
        /\ files[i].readable
        /\ files[i].parses
        /\ Found(files[i], {"def"}) = Found(files[i], {"def", "async", "nested"})

(* C19: the size of the mapping discover() returns is the number of test
   methods in the test classes of all the matched files, also when two files
   define the same class and method names.  Stated for files that are
   readable, well-formed and made of plain defs only; self.tests is keyed by
   "Class.method" alone, so the second file's entry replaces the first's. *)
C19_DiscoverSize ==
    scan.state = "done" /\ PlainFiles =>
        Cardinality(DOMAIN discovered) = Cardinality(AllTestMethods)

(* The second half of C19: for a file ast.parse accepts, the analysis by
   syntax tree and the analysis by regular expressions give the same
   qualified names.  An async def test_* of a test class is found by the
   regular expression and is not an ast.FunctionDef. *)
PathsAgree ==
    \A i \in 1..Len(files) :
        files[i].parses =>
            DOMAIN ast_analyze(files[i])
                = DOMAIN _manual_analyze_fallback(files[i])

(* C20: a matched file that cannot be read is skipped: discover() does not
   raise, it returns the records of every readable file, and it returns the
   empty mapping when there is no test.  _analyze_test_file opens the file
   outside any try block. *)
C20_UnreadableSkipped ==
    /\ scan.state # "raised"
    /\ scan.state = "done" =>
         /\ \A i \in 1..Len(files) :
              files[i].readable =>
                  DOMAIN _manual_analyze(files[i]) \subseteq DOMAIN discovered
         /\ AllTestMethods = {} => discovered = <<>>

(* The definitions of the files the record d of the mapping was built from *)
SourcesOf(d) ==
    UNION { { files[i].classes[p[1]].defs[p[2]] :
                p \in { q \in Found(files[i], {"def", "async", "nested"}) :
                          /\ files[i].stem = d.module
                          /\ files[i].classes[q[1]].name = d.name[1]
                          /\ files[i].classes[q[1]].defs[q[2]].name = d.name[2] } } :
            i \in 1..Len(files) }

(* The name or the docstring of the definition m contains the word *)
Mentions(m, word) == Contains(m.name, word) \/ Contains(m.doc, word)

(* C21: every record discover() returns has requires_auth true exactly when
   its name or doc contains "auth" or "login", flaky true exactly when it
   contains "flaky" or "unstable", and parallel_safe false whenever one of
   the two holds.  _manual_analyze builds every record with the defaults of
   TestMetadata and parallel_safe=True. *)
C21_AuthFlakyFlags ==
    scan.state = "done" =>
        \A k \in DOMAIN discovered : \A m \in SourcesOf(discovered[k]) :
            /\ discovered[k].requires_auth
                   <=> (Mentions(m, "auth") \/ Mentions(m, "login"))
            /\ discovered[k].flaky
                   <=> (Mentions(m, "flaky") \/ Mentions(m, "unstable"))
            /\ discovered[k].requires_auth \/ discovered[k].flaky
                   => ~discovered[k].parallel_safe

(* The category the rule list of the claim gives the definition m *)
RuleCategory(m) ==
    IF Mentions(m, "mock") THEN "mock"
    ELSE IF Mentions(m, "integration") THEN "integration"
    ELSE IF Mentions(m, "api") \/ Mentions(m, "request") THEN "api"
    ELSE IF Mentions(m, "property") THEN "property"
    ELSE "unit"

(* C22: the category of every record discover() returns is the first match
   of the rules mock, integration, api or request, property, else unit,
   applied to the name and doc of the test.  _detect_category_from_name
   knows no integration and no property rule, and makes every test of a
   file that contains "@patch" a mock test. *)
C22_CategoryRules ==
    scan.state = "done" =>
        \A k \in DOMAIN discovered : \A m \in SourcesOf(discovered[k]) :
            discovered[k].category = RuleCategory(m)

(* The priority the rules of the claim give the definition m *)
RulePriority(m) ==
    IF Mentions(m, "critical") THEN CRITICAL
    ELSE IF Mentions(m, "important") THEN HIGH
    ELSE IF Mentions(m, "flaky") \/ Mentions(m, "slow") THEN LOW
    ELSE MEDIUM

(* C23: the priority of every record discover() returns is Critical when
   its name or doc contains "critical", else High for "important", else Low
   for "flaky" or "slow", else Medium.  _manual_analyze gives every record
   TestPriority.MEDIUM, so run() does not put a critical test first. *)
C23_PriorityRules ==
    scan.state = "done" =>
        \A k \in DOMAIN discovered : \A m \in SourcesOf(discovered[k]) :
            discovered[k].priority = RulePriority(m)

(* C24: get_tipo_loja returns "Mall" when the list contains 1, otherwise
   "Star+" when it contains 4, otherwise "Star" when it contains 2,
   otherwise ""; an empty list and None give "". *)
C24_TipoLoja ==
    tipo_loja.called =>
        tipo_loja.value =
            IF shop_type_list.given /\ In(1, shop_type_list.list) THEN "Mall"
            ELSE IF shop_type_list.given /\ In(4, shop_type_list.list)
                 THEN "Star+"
            ELSE IF shop_type_list.given /\ In(2, shop_type_list.list)
                 THEN "Star"
            ELSE ""

(* get_tipo_loja was called with a list that holds 2 before 4 and no 1 *)
C24_Witness ==
    /\ tipo_loja.called
    /\ shop_type_list.given
    /\ shop_type_list.list = <<2, 3, 4>>
    /\ tipo_loja.value = "Star+"

(* C25: at every moment of a parallel run, the number of tests executing
   concurrently is at most config.max_workers. *)
C25_WorkerCap ==
    UsesPool /\ Running => Cardinality(executing) <= config.max_workers

(* Every thread of a pool of one is busy and a submitted test waits *)
C25_Witness ==
    /\ pc = "collect"
    /\ config.max_workers = 1
    /\ Cardinality(executing) = 1
    /\ queue # <<>>

(* The counters and the outcome list of a summary *)
Tally(s) == <<s.passed, s.failed, s.errors, s.skipped, s.results>>

(* C27: once run() has set end_time on a summary, no later operation changes
   that summary's counters or outcome list.  The orchestrator builds its one
   ExecutionSummary in __init__; a second run() on the same orchestrator
   appends to the same list and goes on incrementing the same counters. *)
C27_FrozenAfterEnd ==
    [][summary.end_time # -1 => Tally(summary') = Tally(summary)]_vars

(* The tests whose execution began in the current run and has returned *)
Completed == {started[i] : i \in 1..Len(started)} \ executing

(* How many outcomes of summary.results are of the test n *)
OutcomesOf(n) ==
    Cardinality({i \in 1..Len(summary.results) :
                   summary.results[i].test_id = n})

(* C28: in a single run, every test whose execution ran to completion has
   exactly one outcome in summary.results, and no test id appears more than
   once, also for tests that finish after a fail-fast break or after the
   stop event is set.  After the break of the as_completed loop nothing
   reads the futures that are still running. *)
C28_OneOutcomePerCompleted ==
    pc = "returned" => \A n \in Completed : OutcomesOf(n) = 1

(* How many outcomes of summary.results have the status st *)
WithStatus(st) ==
    Cardinality({i \in 1..Len(summary.results) :
                   summary.results[i].status = st})

(* C29: _execute_single_test only ever produces the statuses passed, failed
   and error, and a test that reports both errors and failures is error; so
   in every state of a run the skipped counter is 0 and every recorded
   outcome has incremented exactly one of passed, failed and errors. *)
C29_ThreeStatuses ==
    /\ \A i \in 1..Len(summary.results) :
         LET o == summary.results[i]
         IN  /\ o.status \in {"passed", "failed", "error"}
             /\ unit[o.test_id] = "fail_and_raise" => o.status = "error"
    /\ summary.skipped = 0
    /\ summary.passed = WithStatus("passed")
    /\ summary.failed = WithStatus("failed")
    /\ summary.errors = WithStatus("error")

(* A run recorded a test that reports a failure and an error, and a test
   that unittest skipped *)
C29_Witness ==
    /\ pc = "returned"
    /\ \E i \in 1..Len(summary.results) :
         unit[summary.results[i].test_id] = "fail_and_raise"
    /\ \E i \in 1..Len(summary.results) :
         unit[summary.results[i].test_id] = "skip"

(* C26: every outcome, from a pool worker or from a sequential loop, is
   appended and counted as one step performed while holding the summary
   mutex, so that whenever the mutex is free the length of the outcome list
   equals passed + failed + errors + skipped.  _run_sequential and the
   sequential tail of _run_parallel append and count without the lock. *)
C26_TallyUnderMutex ==
    mutex = "free" =>
        Len(summary.results)
            = summary.passed + summary.failed + summary.errors
              + summary.skipped

(* run() has returned a finished summary and no thread executes a test *)
ReturnedFinished ==
    /\ pc = "returned"
    /\ summary.end_time # -1
    /\ summary.start_time <= summary.end_time
    /\ executing = {}

(* C30 as stated: provided every test execution terminates, run(), once
   called, eventually returns in both modes; when it returns end_time is
   set, start_time <= end_time and no pool worker still executes a test. *)
C30_AlwaysReturns == (runs > 0) ~> ReturnedFinished

(* C30, amended: the same for every run() that builds no pool or whose
   max_workers is at least 1; with max_workers <= 0 the constructor of the
   pool raises ValueError and run() never returns. *)
C30_ReturnsUnlessRejected ==
    (runs > 0 /\ (UsesPool => config.max_workers >= 1)) ~> ReturnedFinished

(* A parallel run returned after a failure under fail_fast and with the
   stop event set, having started pool tests *)
C30_Witness ==
    /\ ReturnedFinished
    /\ UsesPool
    /\ config.fail_fast
    /\ FailureRecorded
    /\ stop
    /\ Len(started) > 1

====
